---- MODULE Spec2Model ----
(***************************************************************************)
(* Model of two parts of Dolphin:                                          *)
(*                                                                         *)
(*  - KItemListHeader (src/src/kitemviews/kitemlistheader.cpp): the column *)
(*    header widget. Its state is the ordered list of visible roles, the   *)
(*    role -> width hash, the hovered and the pressed role index and the   *)
(*    cursor shape. One action per public setter and per event handler;    *)
(*    the handlers have no guards in the code, so any of them may run in   *)
(*    any state. paint(), paintRole() and the two sort slots write no      *)
(*    member and are not actions. Pixel coordinates and widths are qreal   *)
(*    in the code; the model uses integers, which keeps every comparison   *)
(*    (<=, >=) and every boundary case of the code. Widths are not         *)
(*    negative, as the view that computes them guarantees.                 *)
(*                                                                         *)
(*  - KVersionControlPlugin                                                *)
(*    (src/src/views/versioncontrol/kversioncontrolplugin.h): the abstract *)
(*    plugin interface. The header declares the operations only; the host  *)
(*    that calls them is modelled from the specification's section 4.5,    *)
(*    5 and 7.                                                             *)
(***************************************************************************)
EXTENDS Integers, Sequences, FiniteSets

(* ------------------------------ bounds -------------------------------- *)

\* Largest column width handed to setVisibleRolesWidths.
MaxWidth == 2

\* Largest pointer x of an event; the smallest is -1.
MaxX == 4

\* The value of style()->pixelMetric(QStyle::PM_HeaderGripMargin), which the
\* host's style sets.
GripMargin == 1

\* Longest recorded sequence of host calls into the plugin.
MaxCalls == 5

(* --------------------------- program values --------------------------- *)

\* m_hoveredRoleIndex(-1), m_pressedRoleIndex(-1): no role.
None == -1

\* Role identifiers (QByteArray) the view may show.
Roles == {"name", "size"}

\* KItemModelBase objects; "null" is the 0 pointer.
Models == {"null", "m1"}

\* Pointer x coordinates of the events.
Xs == (0 - 1)..MaxX

\* Every list of roles no longer than the set of roles (a QList may repeat a
\* role).
RoleLists == UNION {[1..n -> Roles] : n \in 0..Cardinality(Roles)}

\* Every hash from some of the roles to a width.
WidthHashes == UNION {[D -> 0..MaxWidth] : D \in SUBSET Roles}

\* Directories and the file items in them.
Dirs == {"/repo/", "/other/"}

Items == {"/repo/a", "/repo/b", "/other/c"}

DirOf(item) == IF item \in {"/repo/a", "/repo/b"} THEN "/repo/" ELSE "/other/"

VARIABLES
    m_model,               \* the connected model, "null" for none
    m_visibleRoles,        \* QList<QByteArray>, as a sequence
    m_visibleRolesWidths,  \* QHash<QByteArray, qreal>, as a function
    m_hoveredRoleIndex,    \* 0-based index, or None
    m_pressedRoleIndex,    \* 0-based index, or None
    cursor,                \* "unset" or "SplitH"
    pos,                   \* x of the last event position a handler read
    lastOp,                \* the last method of the widget that ran
    updated,               \* whether that method called update()
    session,               \* plugin host: "idle", "open" or "failed"
    sessionDir,            \* plugin host: directory of the last beginRetrieval
    calls                  \* plugin host: the calls made into the plugin

headerVars == <<m_model, m_visibleRoles, m_visibleRolesWidths, m_hoveredRoleIndex,
                m_pressedRoleIndex, cursor, pos, lastOp, updated>>

vcsVars == <<session, sessionDir, calls>>

vars == <<m_model, m_visibleRoles, m_visibleRolesWidths, m_hoveredRoleIndex,
          m_pressedRoleIndex, cursor, pos, lastOp, updated,
          session, sessionDir, calls>>

(* ------------------------- header: pure parts ------------------------- *)

\* QHash::value(role): the stored width, or a default-constructed qreal (0).
value(role) ==
    IF role \in DOMAIN m_visibleRolesWidths THEN m_visibleRolesWidths[role] ELSE 0

\* QList::at(i), 0-based.
at(i) == m_visibleRoles[i + 1]

count == Len(m_visibleRoles)

\* roleIndexAtLoop with the comparison pos.x() < x in place of pos.x() <= x.
RECURSIVE roleIndexAtLoop_strict(_, _, _, _)
roleIndexAtLoop_strict(k, index, x, px) ==
    IF k >= count THEN index
    ELSE LET index1 == index + 1
             x1 == x + value(at(k))
         IN  IF px < x1 THEN index1
             ELSE roleIndexAtLoop_strict(k + 1, index1, x1, px)

\* The foreach loop of roleIndexAt from the k-th role on, with the values
\* index and x have when the iteration starts.
RECURSIVE roleIndexAtLoop(_, _, _, _)
roleIndexAtLoop(k, index, x, px) ==
    IF k >= count THEN index
    ELSE LET index1 == index + 1
             x1 == x + value(at(k))
         IN  IF px <= x1 THEN index1
             ELSE roleIndexAtLoop(k + 1, index1, x1, px)

\* roleIndexAt that counts a role only once the pointer is found in it, so
\* that a pointer right of every role is in none.
RECURSIVE roleIndexAt_noClampLoop(_, _, _)
roleIndexAt_noClampLoop(k, x, px) ==
    IF k >= count THEN None
    ELSE IF px <= x + value(at(k)) THEN k
         ELSE roleIndexAt_noClampLoop(k + 1, x + value(at(k)), px)

roleIndexAt_noClamp(px) == roleIndexAt_noClampLoop(0, 0, px)

roleIndexAt(px) == roleIndexAtLoop(0, None, 0, px)

\* gripLoop with the loop condition i < roleIndex in place of i <= roleIndex.
RECURSIVE gripLoop_exclusive(_, _, _)
gripLoop_exclusive(i, roleIndex, x) ==
    IF i < roleIndex THEN gripLoop_exclusive(i + 1, roleIndex, x + value(at(i))) ELSE x

\* The for loop of isAboveRoleGrip: x after the iterations i..roleIndex.
RECURSIVE gripLoop(_, _, _)
gripLoop(i, roleIndex, x) ==
    IF i <= roleIndex THEN gripLoop(i + 1, roleIndex, x + value(at(i))) ELSE x

isAboveRoleGrip(px, roleIndex) ==
    LET x == gripLoop(0, roleIndex, 0)
        grip == GripMargin
    IN  px >= (x - grip) /\ px <= x

(* --------------------------- header: state ---------------------------- *)

HeaderInit ==
    /\ m_model = "null"
    /\ m_visibleRoles = <<>>
    /\ m_visibleRolesWidths = [r \in {} |-> 0]
    /\ m_hoveredRoleIndex = None
    /\ m_pressedRoleIndex = None
    /\ cursor = "unset"
    /\ pos = 0
    /\ lastOp = "constructor"
    /\ updated = FALSE

VcsInit ==
    /\ session = "idle"
    /\ sessionDir = "none"
    /\ calls = <<>>

Init == HeaderInit /\ VcsInit

(* -------------------------- header: methods --------------------------- *)

\* What the plugin host's variables do while the widget runs.
vcsIdle == UNCHANGED vcsVars

\* setModel: returns early for the model already set; otherwise swaps the
\* signal connections and stores the pointer. It never calls update().
setModel(model) ==
    /\ m_model' = (IF m_model = model THEN m_model ELSE model)
    /\ lastOp' = "setModel"
    /\ updated' = FALSE
    /\ UNCHANGED <<m_visibleRoles, m_visibleRolesWidths, m_hoveredRoleIndex,
                   m_pressedRoleIndex, cursor, pos>>
    /\ vcsIdle

setVisibleRoles(roles) ==
    /\ m_visibleRoles' = roles
    /\ lastOp' = "setVisibleRoles"
    /\ updated' = TRUE
    /\ UNCHANGED <<m_model, m_visibleRolesWidths, m_hoveredRoleIndex,
                   m_pressedRoleIndex, cursor, pos>>
    /\ vcsIdle

setVisibleRolesWidths(rolesWidths) ==
    /\ m_visibleRolesWidths' = rolesWidths
    /\ lastOp' = "setVisibleRolesWidths"
    /\ updated' = TRUE
    /\ UNCHANGED <<m_model, m_visibleRoles, m_hoveredRoleIndex,
                   m_pressedRoleIndex, cursor, pos>>
    /\ vcsIdle

\* updatePressedRoleIndex that stores the index in m_hoveredRoleIndex too.
updatePressedRoleIndex_both(px) ==
    LET pressedIndex == roleIndexAt(px)
    IN  /\ m_pressedRoleIndex' = pressedIndex
        /\ updated' = (m_pressedRoleIndex # pressedIndex)
        /\ m_hoveredRoleIndex' = pressedIndex

\* updatePressedRoleIndex(pos): stores roleIndexAt(pos) and calls update()
\* when it differs from the stored index.
updatePressedRoleIndex(px) ==
    LET pressedIndex == roleIndexAt(px)
    IN  /\ m_pressedRoleIndex' = pressedIndex
        /\ updated' = (m_pressedRoleIndex # pressedIndex)
        /\ UNCHANGED m_hoveredRoleIndex

\* updateHoveredRoleIndex that calls update() whether the index changed or not.
updateHoveredRoleIndex_always(px) ==
    LET hoverIndex == roleIndexAt(px)
    IN  /\ m_hoveredRoleIndex' = hoverIndex
        /\ updated' = TRUE
        /\ UNCHANGED m_pressedRoleIndex

\* updateHoveredRoleIndex(pos): the same for the hovered index.
updateHoveredRoleIndex(px) ==
    LET hoverIndex == roleIndexAt(px)
    IN  /\ m_hoveredRoleIndex' = hoverIndex
        /\ updated' = (m_hoveredRoleIndex # hoverIndex)
        /\ UNCHANGED m_pressedRoleIndex

mousePressEvent(px) ==
    /\ updatePressedRoleIndex(px)
    /\ pos' = px
    /\ lastOp' = "mousePressEvent"
    /\ UNCHANGED <<m_model, m_visibleRoles, m_visibleRolesWidths, cursor>>
    /\ vcsIdle

\* mouseReleaseEvent does not read the event's position.
mouseReleaseEvent ==
    /\ m_pressedRoleIndex' = None
    /\ updated' = (m_pressedRoleIndex # None)
    /\ pos' = pos
    /\ lastOp' = "mouseReleaseEvent"
    /\ UNCHANGED <<m_model, m_visibleRoles, m_visibleRolesWidths, m_hoveredRoleIndex,
                   cursor>>
    /\ vcsIdle

mouseMoveEvent(px) ==
    /\ updatePressedRoleIndex(px)
    /\ pos' = px
    /\ lastOp' = "mouseMoveEvent"
    /\ UNCHANGED <<m_model, m_visibleRoles, m_visibleRolesWidths, cursor>>
    /\ vcsIdle

hoverEnterEvent(px) ==
    /\ updateHoveredRoleIndex(px)
    /\ pos' = px
    /\ lastOp' = "hoverEnterEvent"
    /\ UNCHANGED <<m_model, m_visibleRoles, m_visibleRolesWidths, cursor>>
    /\ vcsIdle

\* hoverLeaveEvent that resets the pressed index along with the hovered one.
hoverLeaveEvent_both ==
    /\ m_hoveredRoleIndex' = None
    /\ m_pressedRoleIndex' = None
    /\ updated' = (m_hoveredRoleIndex # None)
    /\ pos' = pos
    /\ lastOp' = "hoverLeaveEvent"
    /\ UNCHANGED <<m_model, m_visibleRoles, m_visibleRolesWidths, cursor>>
    /\ vcsIdle

\* hoverLeaveEvent does not read the event's position.
hoverLeaveEvent ==
    /\ m_hoveredRoleIndex' = None
    /\ updated' = (m_hoveredRoleIndex # None)
    /\ pos' = pos
    /\ lastOp' = "hoverLeaveEvent"
    /\ UNCHANGED <<m_model, m_visibleRoles, m_visibleRolesWidths, m_pressedRoleIndex,
                   cursor>>
    /\ vcsIdle

\* hoverMoveEvent: updates the hovered index, then sets the cursor from the
\* index just stored.
hoverMoveEvent(px) ==
    /\ updateHoveredRoleIndex(px)
    /\ cursor' = (IF roleIndexAt(px) >= 0 /\ isAboveRoleGrip(px, roleIndexAt(px))
                  THEN "SplitH" ELSE "unset")
    /\ pos' = px
    /\ lastOp' = "hoverMoveEvent"
    /\ UNCHANGED <<m_model, m_visibleRoles, m_visibleRolesWidths>>
    /\ vcsIdle

Next ==
    \/ \E model \in Models : setModel(model)
    \/ \E roles \in RoleLists : setVisibleRoles(roles)
    \/ \E rolesWidths \in WidthHashes : setVisibleRolesWidths(rolesWidths)
    \/ \E px \in Xs : mousePressEvent(px)
    \/ mouseReleaseEvent
    \/ \E px \in Xs : mouseMoveEvent(px)
    \/ \E px \in Xs : hoverEnterEvent(px)
    \/ hoverLeaveEvent
    \/ \E px \in Xs : hoverMoveEvent(px)

Spec == Init /\ [][Next]_vars

(* ------------------- version control plugin: the host ----------------- *)

\* What the widget's variables do while the host talks to the plugin.
headerIdle == UNCHANGED headerVars

\* The host calls beginRetrieval(directory) when no session is open; the
\* plugin answers ok (success) or not. A session opens on success only.
beginRetrieval(directory, ok) ==
    /\ Len(calls) < MaxCalls
    /\ session \in {"idle", "failed"}
    /\ session' = (IF ok THEN "open" ELSE "failed")
    /\ sessionDir' = directory
    /\ calls' = Append(calls, [op |-> "beginRetrieval", arg |-> directory, ok |-> ok])
    /\ headerIdle

\* itemVersion asked for any item, whatever its directory.
itemVersion_anyDir(item) ==
    /\ Len(calls) < MaxCalls
    /\ session = "open"
    /\ calls' = Append(calls, [op |-> "itemVersion", arg |-> item, ok |-> TRUE])
    /\ UNCHANGED <<session, sessionDir>>
    /\ headerIdle

\* The host asks for the version of an item of the session's directory.
itemVersion(item) ==
    /\ Len(calls) < MaxCalls
    /\ session = "open"
    /\ DirOf(item) = sessionDir
    /\ calls' = Append(calls, [op |-> "itemVersion", arg |-> item, ok |-> TRUE])
    /\ UNCHANGED <<session, sessionDir>>
    /\ headerIdle

\* The host ends the session. After a failed beginRetrieval the call is not
\* required, and the host may make it or not.
endRetrieval ==
    /\ Len(calls) < MaxCalls
    /\ session \in {"open", "failed"}
    /\ session' = "idle"
    /\ calls' = Append(calls, [op |-> "endRetrieval", arg |-> sessionDir, ok |-> TRUE])
    /\ UNCHANGED sessionDir
    /\ headerIdle

NextVcs ==
    \/ \E directory \in Dirs, ok \in BOOLEAN : beginRetrieval(directory, ok)
    \/ \E item \in Items : itemVersion(item)
    \/ endRetrieval

SpecVcs == Init /\ [][NextVcs]_vars

(* ------------------------------ claims -------------------------------- *)

(* The layout as the specification words it: the width of column i, the   *)
(* sum of the widths left of it and the sum up to and including it. A     *)
(* role without an entry in the hash has width 0, as QHash::value gives.  *)

N == Len(m_visibleRoles)

ColumnWidth(i) ==
    LET role == m_visibleRoles[i + 1]
    IN  IF role \in DOMAIN m_visibleRolesWidths THEN m_visibleRolesWidths[role] ELSE 0

RECURSIVE RightEdge(_)
RightEdge(i) == IF i < 0 THEN 0 ELSE RightEdge(i - 1) + ColumnWidth(i)

LeftEdge(i) == RightEdge(i - 1)

TotalWidth == RightEdge(N - 1)

ValidOrNone(index) == index = None \/ (0 <= index /\ index < N)

InColumn(px, i) == LeftEdge(i) < px /\ px <= RightEdge(i)

HoverOps == {"hoverEnterEvent", "hoverMoveEvent", "hoverLeaveEvent"}

\* C1 as stated: for visible columns that each have a width and for every
\* pointer x, roleIndexAt(x) is i exactly when
\* (sum of w0..w(i-1)) < x <= (sum of w0..wi). It fails for x <= 0 and for
\* x right of the last column, where the code clamps to the first and the
\* last column.
C1_ColumnAtExactlyInside ==
    (\A k \in 1..N : m_visibleRoles[k] \in DOMAIN m_visibleRolesWidths) =>
        \A px \in Xs : \A i \in 0..(N - 1) : (roleIndexAt(px) = i) <=> InColumn(px, i)

\* C1 amended: for every pointer x with 0 < x <= total width, roleIndexAt(x)
\* is i exactly when (sum of w0..w(i-1)) < x <= (sum of w0..wi); a pointer
\* on a boundary resolves to the column that ends there.
C1_ColumnAtInside ==
    \A px \in Xs :
        (0 < px /\ px <= TotalWidth) =>
            \A i \in 0..(N - 1) : (roleIndexAt(px) = i) <=> InColumn(px, i)

\* C1 witness: a hover move exactly on the boundary between two columns of
\* positive width has stored the left one.
C1_Witness ==
    /\ lastOp = "hoverMoveEvent"
    /\ N = 2
    /\ ColumnWidth(0) > 0
    /\ ColumnWidth(1) > 0
    /\ pos = RightEdge(0)
    /\ m_hoveredRoleIndex = 0

\* C2 as stated: in every reachable state the hovered and the pressed index
\* are each none or an index i with 0 <= i < N, N the current number of
\* visible columns.
C2_IndicesValid ==
    ValidOrNone(m_hoveredRoleIndex) /\ ValidOrNone(m_pressedRoleIndex)

\* C3 as stated: in every reachable state every identifier of the list of
\* visible columns has an entry in the width mapping.
C3_WidthsCoverRoles ==
    \A i \in 1..N : m_visibleRoles[i] \in DOMAIN m_visibleRolesWidths

\* C4: for every valid column index i and pointer x, isAboveRoleGrip(x, i)
\* is true if and only if rightEdge(i) - gripMargin <= x <= rightEdge(i).
C4_GripRange ==
    \A i \in 0..(N - 1) : \A px \in Xs :
        isAboveRoleGrip(px, i) <=> (RightEdge(i) - GripMargin <= px /\ px <= RightEdge(i))

\* C4 witness: a hover move at the left end of the grip of the second
\* column, inside that column, has set the resize cursor.
C4_Witness ==
    /\ lastOp = "hoverMoveEvent"
    /\ N = 2
    /\ m_hoveredRoleIndex = 1
    /\ ColumnWidth(1) > GripMargin
    /\ pos = RightEdge(1) - GripMargin
    /\ cursor = "SplitH"

\* C5: for every pointer x, roleIndexAt(x) is none when there is no visible
\* column; otherwise it is a valid index, the last column's when x exceeds
\* the total width and the first column's when x is below zero.
C5_ColumnAtClamped ==
    \A px \in Xs :
        IF N = 0 THEN roleIndexAt(px) = None
        ELSE /\ roleIndexAt(px) \in 0..(N - 1)
             /\ (px > TotalWidth => roleIndexAt(px) = N - 1)
             /\ (px < 0 => roleIndexAt(px) = 0)

\* C5 witness: a hover move right of two columns of positive total width
\* has stored the last column.
C5_Witness ==
    /\ lastOp = "hoverMoveEvent"
    /\ N = 2
    /\ ColumnWidth(0) > 0
    /\ pos > TotalWidth
    /\ m_hoveredRoleIndex = 1

\* C6: right after hoverLeaveEvent the hovered index is none, and the
\* pressed index is what it was before.
C6_LeaveResetsHover ==
    [][lastOp' = "hoverLeaveEvent" =>
          (m_hoveredRoleIndex' = None /\ m_pressedRoleIndex' = m_pressedRoleIndex)]_vars

\* C6 witness: a hover leave has reset a hovered index that was set, while
\* a role is pressed.
C6_Witness ==
    /\ lastOp = "hoverLeaveEvent"
    /\ updated
    /\ m_hoveredRoleIndex = None
    /\ m_pressedRoleIndex = 1

\* C7: the hovered index changes only in hover enter, hover move and hover
\* leave; press, move while pressed, release, setVisibleRoles,
\* setVisibleRolesWidths and setModel leave it unchanged.
C7_HoverChangesOnlyInHoverEvents ==
    [][m_hoveredRoleIndex' # m_hoveredRoleIndex => lastOp' \in HoverOps]_vars

\* C7 witness: a press has stored the second column as pressed while the
\* first one stays hovered.
C7_Witness ==
    /\ lastOp = "mousePressEvent"
    /\ updated
    /\ m_pressedRoleIndex = 1
    /\ m_hoveredRoleIndex = 0

\* C8: itemVersion is called only between a beginRetrieval that returned
\* success and its endRetrieval, and only for items of that beginRetrieval's
\* directory; endRetrieval is called only after a beginRetrieval; no
\* beginRetrieval is called while a session is open.
C8_SessionBracket ==
    \A k \in 1..Len(calls) :
        /\ calls[k].op = "itemVersion" =>
              \E j \in 1..(k - 1) :
                  /\ calls[j].op = "beginRetrieval"
                  /\ calls[j].ok
                  /\ calls[j].arg = DirOf(calls[k].arg)
                  /\ \A m \in (j + 1)..(k - 1) : calls[m].op = "itemVersion"
        /\ calls[k].op = "endRetrieval" =>
              \E j \in 1..(k - 1) :
                  /\ calls[j].op = "beginRetrieval"
                  /\ \A m \in (j + 1)..(k - 1) : calls[m].op = "itemVersion"
        /\ calls[k].op = "beginRetrieval" =>
              \A j \in 1..(k - 1) :
                  (calls[j].op = "beginRetrieval" /\ calls[j].ok) =>
                      \E m \in (j + 1)..(k - 1) : calls[m].op = "endRetrieval"

\* C8 witness: a session that asked for an item has ended and a second one
\* has begun.
C8_Witness ==
    /\ Len(calls) >= 4
    /\ calls[1].op = "beginRetrieval"
    /\ calls[2].op = "itemVersion"
    /\ calls[3].op = "endRetrieval"
    /\ calls[4].op = "beginRetrieval"

\* C9: hover enter and hover move set the hovered index, press and move
\* while pressed the pressed index, to roleIndexAt(pointer x), and call
\* update() exactly when the value differs from the stored one; hover leave
\* and release set their index to none and call update() exactly when it
\* was not none.
C9_RedrawIffChanged ==
    [][/\ lastOp' \in {"hoverEnterEvent", "hoverMoveEvent"} =>
             /\ m_hoveredRoleIndex' = roleIndexAt(pos')
             /\ updated' <=> (m_hoveredRoleIndex' # m_hoveredRoleIndex)
       /\ lastOp' \in {"mousePressEvent", "mouseMoveEvent"} =>
             /\ m_pressedRoleIndex' = roleIndexAt(pos')
             /\ updated' <=> (m_pressedRoleIndex' # m_pressedRoleIndex)
       /\ lastOp' = "hoverLeaveEvent" =>
             /\ m_hoveredRoleIndex' = None
             /\ updated' <=> (m_hoveredRoleIndex # None)
       /\ lastOp' = "mouseReleaseEvent" =>
             /\ m_pressedRoleIndex' = None
             /\ updated' <=> (m_pressedRoleIndex # None)]_vars

\* C9 witness: a hover move inside the column already hovered has run
\* without calling update().
C9_Witness ==
    /\ lastOp = "hoverMoveEvent"
    /\ ~updated
    /\ N = 2
    /\ m_hoveredRoleIndex = 1
    /\ InColumn(pos, 1)

\* C10 as stated: in every reachable state, the cursor has the resize shape
\* only if the hovered index is a valid index and the last pointer x lies
\* within that column's grip range.
C10_ResizeCursorOnlyOverGrip ==
    cursor = "SplitH" =>
        /\ 0 <= m_hoveredRoleIndex
        /\ m_hoveredRoleIndex < N
        /\ RightEdge(m_hoveredRoleIndex) - GripMargin <= pos
        /\ pos <= RightEdge(m_hoveredRoleIndex)

====
